---- MODULE Spec2Model ----
(***************************************************************************)
(* Model of the template application: the route table and its matcher,     *)
(* the reactive state container (route and count signals), the navigation  *)
(* callback, the root view Example in its three variants, the home route   *)
(* with its two Buttons, and the two serverless functions.                 *)
(*                                                                         *)
(* A path is a sequence of tokens.  The token "/" is the separator; every  *)
(* other token stands for a run of characters that holds no "/": a segment *)
(* name ("contact") or a query string ("?q=1").                            *)
(***************************************************************************)
EXTENDS Integers, Sequences, FiniteSets, TLC

\* ------------------------------------------------------------------ bounds

\* Longest pathname, in tokens.
MaxPathLen == 3
\* Most counter calls (Increase plus Decrease) in one run.
MaxOps == 4
\* Most patterns registered in the matcher specification.
MaxRoutes == 3
\* Longest path matched in the matcher specification, in tokens.
MaxMatchLen == 4
\* Most violations in one scan result.
MaxViolations == 3
\* Most headings on a page, and the deepest heading level.
MaxHeadings == 3
MaxLevel == 3
\* Most waits of ContactRoute's submit that are running at once.
MaxSleeps == 3
\* Most clicks on one Button.
MaxClicks == 5

\* ------------------------------------------------------------------ paths

Slash == "/"
BaseSeg == "template-ts-preact-htm"
Segs == {"contact", "x", BaseSeg}
Tokens == {Slash} \cup Segs

\* Well-formed pathnames: "/" first, then segments separated by "/".
PathNames ==
    { p \in UNION { [1..n -> Tokens] : n \in 1..MaxPathLen } :
        /\ p[1] = Slash
        /\ \A i \in 1..(Len(p) - 1) : (p[i] = Slash) # (p[i + 1] = Slash) }

QueryTok == "?q=1"
Searches == { <<>>, <<QueryTok>> }

\* The routes the accessibility suite visits besides '/'.
SuitePaths == { <<Slash, "aaa">>, <<Slash, "bbb">>, <<Slash, "ccc">> }

\* Paths that hold the base path past their start, or before a route.
DeepPaths == { <<Slash, "x", Slash, BaseSeg, Slash>>,
               <<Slash, BaseSeg, Slash, "contact">> }

\* Paths that carry a query string.
QueryPaths == { <<Slash, QueryTok>>, <<Slash, "contact", QueryTok>> }

\* The browser location the page is loaded at.
Locations == [pathname : PathNames \cup SuitePaths, search : Searches]

\* The paths a navigation event can carry.
EventPaths == PathNames \cup QueryPaths \cup SuitePaths \cup DeepPaths

PopOffsets == { <<0, 0>>, <<120, 0>> }

\* String.prototype.replace with a string pattern: the first occurrence only.
ReplaceFirst(s, pat, rep) ==
    LET hits == { i \in 1..(Len(s) - Len(pat) + 1) :
                    SubSeq(s, i, i + Len(pat) - 1) = pat }
    IN  IF hits = {} THEN s
        ELSE LET i == CHOOSE k \in hits : \A j \in hits : k <= j
             IN  SubSeq(s, 1, i - 1) \o rep \o SubSeq(s, i + Len(pat), Len(s))

\* ------------------------------------------------------------------ matcher
\* The router of @substrate-system/routes is a dependency whose code is not
\* part of the sources; addRoute and match follow the design document, 4.1.

ParamToks == { ":id" }
WildTok == "*"

\* The patterns the matcher specification registers.
PatternSet ==
    { <<Slash>>,
      <<Slash, "contact">>,
      <<Slash, ":id">>,
      <<Slash, WildTok>>,
      <<Slash, "contact", Slash, WildTok>>,
      <<Slash, "contact", Slash, ":id">> }

\* Split a path on "/": "/contact" gives <<"", "contact">>, "/" gives <<"", "">>.
RECURSIVE SplitAcc(_, _, _)
SplitAcc(p, acc, cur) ==
    IF p = <<>> THEN Append(acc, cur)
    ELSE IF Head(p) = Slash THEN SplitAcc(Tail(p), Append(acc, cur), <<>>)
    ELSE SplitAcc(Tail(p), acc, Append(cur, Head(p)))

Split(p) == SplitAcc(p, <<>>, <<>>)

IsWild(seg) == seg = <<WildTok>>
IsParam(seg) == Len(seg) = 1 /\ seg[1] \in ParamToks
HasWild(pattern) == \E i \in 1..Len(Split(pattern)) : IsWild(Split(pattern)[i])
IsLiteralOnly(pattern) ==
    \A i \in 1..Len(Split(pattern)) :
        ~IsWild(Split(pattern)[i]) /\ ~IsParam(Split(pattern)[i])

\* Segment-by-segment comparison that lets a pattern match a prefix of the
\* path: the segment-count check is lost.
RECURSIVE SegsMatchPrefix(_, _)
SegsMatchPrefix(pat, segs) ==
    IF pat = <<>> THEN TRUE
    ELSE IF IsWild(Head(pat)) THEN Len(pat) = 1
    ELSE IF segs = <<>> THEN FALSE
    ELSE IF IsParam(Head(pat))
         THEN Head(segs) # <<>> /\ SegsMatchPrefix(Tail(pat), Tail(segs))
    ELSE Head(pat) = Head(segs) /\ SegsMatchPrefix(Tail(pat), Tail(segs))

\* Segment-by-segment comparison: a literal equals its segment, a parameter
\* takes one non-empty segment, a wildcard (last in its pattern) takes the rest.
RECURSIVE SegsMatch(_, _)
SegsMatch(pat, segs) ==
    IF pat = <<>> THEN segs = <<>>
    ELSE IF IsWild(Head(pat)) THEN Len(pat) = 1
    ELSE IF segs = <<>> THEN FALSE
    ELSE IF IsParam(Head(pat))
         THEN Head(segs) # <<>> /\ SegsMatch(Tail(pat), Tail(segs))
    ELSE Head(pat) = Head(segs) /\ SegsMatch(Tail(pat), Tail(segs))

\* The paths the matcher specification matches.
MatchPaths ==
    { p \in UNION { [1..n -> {Slash, "contact", "x"}] : n \in 1..MaxMatchLen } :
        /\ p[1] = Slash
        /\ \A i \in 1..(Len(p) - 1) : (p[i] = Slash) # (p[i + 1] = Slash) }

PatternMatches(pattern, path) == SegsMatch(Split(pattern), Split(path))

\* The captured parameters: name and value of every parameter segment.
Params(pattern, path) ==
    LET ps == Split(pattern)
        ss == Split(path)
    IN  { <<ps[i][1], ss[i]>> : i \in { k \in 1..Len(ps) : IsParam(ps[k]) } }

\* The segments a trailing wildcard consumed.
Splats(pattern, path) ==
    LET ps == Split(pattern)
        ss == Split(path)
    IN  IF HasWild(pattern) THEN SubSeq(ss, Len(ps), Len(ss)) ELSE <<>>

NoMatch == [found |-> FALSE]

Found(route, path) ==
    [found |-> TRUE, pattern |-> route.pattern, action |-> route.action,
     params |-> Params(route.pattern, path), splats |-> Splats(route.pattern, path)]

\* The last registered pattern that matches wins: the iteration order reversed.
MatchLast(routes, path) ==
    LET hits == { i \in 1..Len(routes) : PatternMatches(routes[i].pattern, path) }
    IN  IF hits = {} THEN NoMatch
        ELSE Found(routes[CHOOSE k \in hits : \A j \in hits : j <= k], path)

\* Iterate the patterns in registration order; the first full match is returned.
RECURSIVE MatchFrom(_, _, _)
MatchFrom(routes, path, i) ==
    IF i > Len(routes) THEN NoMatch
    ELSE IF PatternMatches(routes[i].pattern, path) THEN Found(routes[i], path)
    ELSE MatchFrom(routes, path, i + 1)

Match(routes, path) == MatchFrom(routes, path, 1)

NewRouter == <<>>
AddRouteTo(routes, pattern, fn) == Append(routes, [pattern |-> pattern, action |-> fn])

\* ------------------------------------------------------------------ route table

\* The table with the two registrations swapped between the handlers.
RouterSwapped ==
    AddRouteTo(AddRouteTo(NewRouter, <<Slash>>, "ContactFactory"),
               <<Slash, "contact">>, "HomeFactory")

\* _Router(): '/' is registered first, then '/contact'.
Router ==
    AddRouteTo(AddRouteTo(NewRouter, <<Slash>>, "HomeFactory"),
               <<Slash, "contact">>, "ContactFactory")

\* What a handler factory returns when the view calls match.action(match, route).
Invoke(fn) ==
    CASE fn = "HomeFactory" -> "HomeRoute"
      [] fn = "ContactFactory" -> "ContactRoute"

\* ------------------------------------------------------------------ state

VARIABLES
    variant,     \* which root module runs: "index", "part_002" or "part_001"
    boot,        \* "fetching" (awaiting /api/example), "running" or "failed"
    router,      \* the route table of the Router instance
    route,       \* state.route.value
    count,       \* state.count.value
    scroll,      \* the offset of the last window.scrollTo call
    view,        \* what the last successful render of Example selected
    dirty,       \* a render of Example is due before the next event
    renderErr,   \* the last render of Example threw
    memo,        \* the useMemo cell of Example (index variant)
    lastMatch,   \* argument and result of the last router.match call
    incCalls,    \* history: number of State.Increase calls
    decCalls,    \* history: number of State.Decrease calls
    lastOp,      \* history: the last counter call
    lastBefore,  \* history: the counter value before the last counter call
    lastNav,     \* history: the last navigation event the page saw
    scrollCalls, \* history: the window.scrollTo calls of the last callback run
    published,   \* history: the values the last callback run gave the route signal
    notified,    \* the signals whose change the last step announced
    spinning,    \* isSpinning.value of the plus and the minus Button
    awaiting,    \* the Button whose click handler is suspended at its await
    shown,       \* what the last render of HomeRoute put on the page
    request,     \* the request a serverless function was called with
    response,    \* what the function returned for it
    contact,     \* ContactRoute: isResolving, its pending sleeps, its form
    button,      \* a Button on its own: props, isSpinning, its click, its element
    subject,     \* what a test helper is called with
    verdict      \* what the helper returned, or that it threw

vars == <<variant, boot, router, route, count, scroll, view, dirty, renderErr,
          memo, lastMatch, incCalls, decCalls, lastOp, lastBefore,
          lastNav, scrollCalls, published, notified,
          spinning, awaiting, shown, request, response,
          contact, button, subject, verdict>>

Variants == {"index", "part_002", "part_001"}
NoMemo == [set |-> FALSE]
NoCall == [called |-> FALSE]
NoNav == [set |-> FALSE]
NoShown == [set |-> FALSE]
NoRequest == [set |-> FALSE]
NoResponse == [set |-> FALSE]
Buttons == {"plus", "minus"}

\* A state with the counter started at 1.
StateCountOne(loc) == [count |-> 1, route |-> loc.pathname \o loc.search]

\* State(): the two signals at construction.
State(loc) == [count |-> 0, route |-> loc.pathname \o loc.search]

history == <<incCalls, decCalls, lastOp, lastBefore>>
navHistory == <<lastNav, scrollCalls, published>>
buttonVars == <<spinning, awaiting>>
fnVars == <<request, response>>
widgetVars == <<contact, button>>
helperVars == <<subject, verdict>>

\* ContactRoute before its first submit: useSignal(false), nothing pending.
\* sleeping counts the pending sleeps of the mounted instance, stale those
\* of instances unmounted since; disabled is what the form shows.
NoContact ==
    [isResolving |-> FALSE, sleeping |-> 0, stale |-> 0, disabled |-> FALSE]

NoButton == [set |-> FALSE]
NoSubject == [set |-> FALSE]
NoVerdict == [set |-> FALSE]

\* No widget has been used.
NoWidgets ==
    /\ contact = NoContact
    /\ button = NoButton

\* No test helper has been called.
NoHelpers ==
    /\ subject = NoSubject
    /\ verdict = NoVerdict

\* No Button is spinning, nothing is on the page yet.
NoClicks ==
    /\ spinning = [b \in Buttons |-> FALSE]
    /\ awaiting = "none"
    /\ shown = NoShown

\* No serverless function was called.
NoTraffic ==
    /\ request = NoRequest
    /\ response = NoResponse

Init ==
    /\ variant \in Variants
    /\ boot = IF variant = "part_001" THEN "fetching" ELSE "running"
    /\ router = Router
    /\ \E loc \in Locations :
          /\ route = State(loc).route
          /\ count = State(loc).count
    /\ scroll = <<0, 0>>
    /\ view = "none"
    /\ dirty = (variant # "part_001")
    /\ renderErr = FALSE
    /\ memo = NoMemo
    /\ lastMatch = NoCall
    /\ incCalls = 0
    /\ decCalls = 0
    /\ lastOp = "none"
    /\ lastBefore = 0
    /\ lastNav = NoNav
    /\ scrollCalls = <<>>
    /\ published = <<>>
    /\ notified = {}
    /\ NoClicks
    /\ NoTraffic
    /\ NoWidgets
    /\ NoHelpers

\* Example is subscribed to the route signal once it is mounted.
ReadsRoute == boot = "running"

\* The component that reads state.count.value: HomeRoute in the index and
\* part_002 variants, Example itself (past its 404 return) in part_001.
ReadsCount ==
    /\ boot = "running"
    /\ ~renderErr
    /\ IF variant = "part_001" THEN view \in {"HomeRoute", "ContactRoute"}
       ELSE view = "HomeRoute"

\* ------------------------------------------------------------------ counter

\* An increment that saturates at 2.
IncreaseCapped ==
    /\ ~dirty
    /\ incCalls + decCalls < MaxOps
    /\ count' = IF count < 2 THEN count + 1 ELSE count
    /\ incCalls' = incCalls + 1
    /\ lastOp' = "Increase"
    /\ lastBefore' = count
    /\ dirty' = (ReadsCount /\ count' # count)
    /\ notified' = IF count' # count THEN {"count"} ELSE {}
    /\ UNCHANGED <<variant, boot, router, route, scroll, view, renderErr, memo,
                   lastMatch, decCalls>>
    /\ UNCHANGED navHistory
    /\ UNCHANGED <<buttonVars, shown, fnVars>>
    /\ UNCHANGED <<widgetVars, helperVars>>

\* State.Increase: state.count.value++
Increase ==
    /\ ~dirty
    /\ incCalls + decCalls < MaxOps
    /\ count' = count + 1
    /\ incCalls' = incCalls + 1
    /\ lastOp' = "Increase"
    /\ lastBefore' = count
    /\ dirty' = ReadsCount
    /\ notified' = {"count"}
    /\ UNCHANGED <<variant, boot, router, route, scroll, view, renderErr, memo,
                   lastMatch, decCalls>>
    /\ UNCHANGED navHistory
    /\ UNCHANGED <<buttonVars, shown, fnVars>>
    /\ UNCHANGED <<widgetVars, helperVars>>

\* A decrement clamped at zero.
DecreaseClamped ==
    /\ ~dirty
    /\ incCalls + decCalls < MaxOps
    /\ count' = IF count > 0 THEN count - 1 ELSE 0
    /\ decCalls' = decCalls + 1
    /\ lastOp' = "Decrease"
    /\ lastBefore' = count
    /\ dirty' = (ReadsCount /\ count' # count)
    /\ notified' = IF count' # count THEN {"count"} ELSE {}
    /\ UNCHANGED <<variant, boot, router, route, scroll, view, renderErr, memo,
                   lastMatch, incCalls>>
    /\ UNCHANGED navHistory
    /\ UNCHANGED <<buttonVars, shown, fnVars>>
    /\ UNCHANGED <<widgetVars, helperVars>>

\* State.Decrease: state.count.value--
Decrease ==
    /\ ~dirty
    /\ incCalls + decCalls < MaxOps
    /\ count' = count - 1
    /\ decCalls' = decCalls + 1
    /\ lastOp' = "Decrease"
    /\ lastBefore' = count
    /\ dirty' = ReadsCount
    /\ notified' = {"count"}
    /\ UNCHANGED <<variant, boot, router, route, scroll, view, renderErr, memo,
                   lastMatch, incCalls>>
    /\ UNCHANGED navHistory
    /\ UNCHANGED <<buttonVars, shown, fnVars>>
    /\ UNCHANGED <<widgetVars, helperVars>>

\* ------------------------------------------------------------------ navigation

BasePrefix == <<Slash, BaseSeg, Slash>>

\* A callback that starts the counter over on every navigation.
OnRouteResetting(path, popstate, offset) ==
    /\ ~dirty
    /\ route' = ReplaceFirst(path, BasePrefix, <<Slash>>)
    /\ count' = 0
    /\ published' = <<route'>>
    /\ scrollCalls' = IF popstate THEN <<offset>> ELSE << <<0, 0>> >>
    /\ scroll' = scrollCalls'[Len(scrollCalls')]
    /\ notified' = (IF route' # route THEN {"route"} ELSE {})
                     \cup (IF count # 0 THEN {"count"} ELSE {})
    /\ dirty' = (ReadsRoute /\ route' # route)
    /\ UNCHANGED <<variant, boot, router, view, renderErr, memo, lastMatch>>
    /\ UNCHANGED history
    /\ UNCHANGED <<buttonVars, shown, fnVars>>
    /\ UNCHANGED <<widgetVars, helperVars>>

\* A callback whose every write of the route is announced, a write of the
\* value already held included.
OnRouteAlwaysAnnouncing(path, popstate, offset) ==
    /\ ~dirty
    /\ route' = ReplaceFirst(path, BasePrefix, <<Slash>>)
    /\ published' = <<route'>>
    /\ scrollCalls' = IF popstate THEN <<offset>> ELSE << <<0, 0>> >>
    /\ scroll' = scrollCalls'[Len(scrollCalls')]
    /\ notified' = {"route"}
    /\ dirty' = ReadsRoute
    /\ UNCHANGED <<variant, boot, router, count, view, renderErr, memo, lastMatch>>
    /\ UNCHANGED history
    /\ UNCHANGED <<buttonVars, shown, fnVars>>
    /\ UNCHANGED <<widgetVars, helperVars>>

\* A callback without the return in its popstate branch: it goes on to the
\* scroll to the top.
OnRouteFallingThrough(path, popstate, offset) ==
    /\ ~dirty
    /\ route' = ReplaceFirst(path, BasePrefix, <<Slash>>)
    /\ published' = <<route'>>
    /\ scrollCalls' = IF popstate THEN <<offset, <<0, 0>> >> ELSE << <<0, 0>> >>
    /\ scroll' = scrollCalls'[Len(scrollCalls')]
    /\ notified' = IF route' # route THEN {"route"} ELSE {}
    /\ dirty' = (ReadsRoute /\ route' # route)
    /\ UNCHANGED <<variant, boot, router, count, view, renderErr, memo, lastMatch>>
    /\ UNCHANGED history
    /\ UNCHANGED <<buttonVars, shown, fnVars>>
    /\ UNCHANGED <<widgetVars, helperVars>>

\* The callback given to route-event: publish the path, then scroll.  A signal
\* announces a write only when the value written differs from the one it held.
OnRoute(path, popstate, offset) ==
    /\ ~dirty
    /\ route' = ReplaceFirst(path, BasePrefix, <<Slash>>)
    /\ published' = <<route'>>
    /\ scrollCalls' = IF popstate THEN <<offset>> ELSE << <<0, 0>> >>
    /\ scroll' = scrollCalls'[Len(scrollCalls')]
    /\ notified' = IF route' # route THEN {"route"} ELSE {}
    /\ dirty' = (ReadsRoute /\ route' # route)
    /\ UNCHANGED <<variant, boot, router, count, view, renderErr, memo, lastMatch>>
    /\ UNCHANGED history
    /\ UNCHANGED <<buttonVars, shown, fnVars>>
    /\ UNCHANGED <<widgetVars, helperVars>>

\* ------------------------------------------------------------------ view

\* An Example that keeps the first match it computed.
RenderIndexStale ==
    LET fresh == memo = NoMemo
        match == IF fresh THEN Match(router, route) ELSE memo.val
    IN  /\ memo' = [set |-> TRUE, dep |-> route, val |-> match]
        /\ lastMatch' = IF fresh
                        THEN [called |-> TRUE, arg |-> route, res |-> match]
                        ELSE lastMatch
        /\ view' = IF ~match.found THEN "404" ELSE Invoke(match.action)
        /\ renderErr' = FALSE

\* Example of src/index.ts: the match is memoized on the route value.
RenderIndex ==
    LET fresh == memo = NoMemo \/ memo.dep # route
        match == IF fresh THEN Match(router, route) ELSE memo.val
    IN  /\ memo' = [set |-> TRUE, dep |-> route, val |-> match]
        /\ lastMatch' = IF fresh
                        THEN [called |-> TRUE, arg |-> route, res |-> match]
                        ELSE lastMatch
        /\ view' = IF ~match.found THEN "404" ELSE Invoke(match.action)
        /\ renderErr' = FALSE

\* Example of part_002: the same without the memo.
RenderPart002 ==
    LET match == Match(router, route)
    IN  /\ lastMatch' = [called |-> TRUE, arg |-> route, res |-> match]
        /\ view' = IF ~match.found THEN "404" ELSE Invoke(match.action)
        /\ renderErr' = FALSE
        /\ UNCHANGED memo

\* Example of part_001: match.action is called before match is tested, so a
\* path without a match raises a TypeError and the render is abandoned.
RenderPart001 ==
    LET match == Match(router, route)
    IN  /\ lastMatch' = [called |-> TRUE, arg |-> route, res |-> match]
        /\ IF ~match.found
           THEN renderErr' = TRUE /\ view' = view
           ELSE renderErr' = FALSE /\ view' = Invoke(match.action)
        /\ UNCHANGED memo

\* What is on the page after a render that selected view v: HomeRoute, given
\* the state by Example, shows the counter and its two Buttons, each disabled
\* while its isSpinning holds.
Page(v, err) ==
    IF v = "HomeRoute" /\ ~err /\ variant # "part_001"
    THEN [set |-> TRUE, count |-> count, disabled |-> spinning]
    ELSE NoShown

\* ContactRoute after a render that selected view v where view old was shown:
\* a render that throws leaves the tree as it is; mounting starts a fresh
\* instance (useSignal(false)); unmounting leaves the pending sleeps of the
\* instance behind; a re-render shows the input and the Button disabled while
\* isResolving holds.
Mounted(old, v, err) ==
    IF err THEN contact
    ELSE IF v # "ContactRoute"
    THEN [isResolving |-> FALSE, sleeping |-> 0,
          stale |-> contact.stale + contact.sleeping, disabled |-> FALSE]
    ELSE IF old # "ContactRoute"
    THEN [contact EXCEPT !.isResolving = FALSE, !.disabled = FALSE]
    ELSE [contact EXCEPT !.disabled = contact.isResolving]

\* A render that registers a route again each time it runs.
RenderRegistering ==
    /\ dirty
    /\ boot = "running"
    /\ dirty' = FALSE
    /\ router' = AddRouteTo(router, <<Slash>>, "ContactFactory")
    /\ CASE variant = "index" -> RenderIndex
         [] variant = "part_002" -> RenderPart002
         [] variant = "part_001" -> RenderPart001
    /\ notified' = {}
    /\ UNCHANGED <<variant, boot, route, count, scroll>>
    /\ UNCHANGED history
    /\ UNCHANGED navHistory
    /\ shown' = Page(view', renderErr')
    /\ UNCHANGED <<buttonVars, fnVars>>
    /\ contact' = Mounted(view, view', renderErr')
    /\ UNCHANGED <<button, helperVars>>

Render ==
    /\ dirty
    /\ boot = "running"
    /\ dirty' = FALSE
    /\ CASE variant = "index" -> RenderIndex
         [] variant = "part_002" -> RenderPart002
         [] variant = "part_001" -> RenderPart001
    /\ notified' = {}
    /\ UNCHANGED <<variant, boot, router, route, count, scroll>>
    /\ UNCHANGED history
    /\ UNCHANGED navHistory
    /\ shown' = Page(view', renderErr')
    /\ UNCHANGED <<buttonVars, fnVars>>
    /\ contact' = Mounted(view, view', renderErr')
    /\ UNCHANGED <<button, helperVars>>

\* part_001: the awaited request for /api/example resolves; render follows.
ApiResolve ==
    /\ boot = "fetching"
    /\ boot' = "running"
    /\ dirty' = TRUE
    /\ notified' = {}
    /\ UNCHANGED <<variant, router, route, count, scroll, view, renderErr, memo,
                   lastMatch>>
    /\ UNCHANGED history
    /\ UNCHANGED navHistory
    /\ UNCHANGED <<buttonVars, shown, fnVars>>
    /\ UNCHANGED <<widgetVars, helperVars>>

\* part_001: the request rejects; the module's evaluation ends in the error.
ApiReject ==
    /\ boot = "fetching"
    /\ boot' = "failed"
    /\ notified' = {}
    /\ UNCHANGED <<variant, router, route, count, scroll, view, dirty, renderErr,
                   memo, lastMatch>>
    /\ UNCHANGED history
    /\ UNCHANGED navHistory
    /\ UNCHANGED <<buttonVars, shown, fnVars>>
    /\ UNCHANGED <<widgetVars, helperVars>>

\* The event handed to the callback, as the history records it.
NavEvent(kind, path, offset) ==
    [set |-> TRUE, kind |-> kind, path |-> path, offset |-> offset]

\* An event left to the browser: no path of the application is involved.
ExternalEvent == [set |-> TRUE, kind |-> "external"]

\* A link of the application is followed: route-event runs the callback.
Navigate ==
    \E path \in EventPaths :
        /\ OnRoute(path, FALSE, <<0, 0>>)
        /\ lastNav' = NavEvent("link", path, <<0, 0>>)

\* The history is popped: route-event runs the callback with the offset
\* recorded for the entry.
Popstate ==
    \E path \in EventPaths, offset \in PopOffsets :
        /\ OnRoute(path, TRUE, offset)
        /\ lastNav' = NavEvent("pop", path, offset)

\* state._setRoute(path): route-event navigates and runs the callback.
SetRoute(path) ==
    /\ OnRoute(path, FALSE, <<0, 0>>)
    /\ lastNav' = NavEvent("setRoute", path, <<0, 0>>)

\* The paths the page is sent to by program.
SetRoutePaths == { <<Slash>>, <<Slash, "contact">>, <<Slash, "x">>, BasePrefix }

Programmatic == \E path \in SetRoutePaths : SetRoute(path)

\* A foreign link that is handled like a link of the application.
ExternalLinkCaptured ==
    /\ OnRoute(<<Slash, "x">>, FALSE, <<0, 0>>)
    /\ lastNav' = ExternalEvent

\* A link to another origin, or a malformed one, is followed: route-event
\* leaves it to the browser and the callback does not run.
ExternalLink ==
    /\ ~dirty
    /\ lastNav' = ExternalEvent
    /\ notified' = {}
    /\ UNCHANGED <<variant, boot, router, route, count, scroll, view, dirty,
                   renderErr, memo, lastMatch>>
    /\ UNCHANGED history
    /\ UNCHANGED <<scrollCalls, published>>
    /\ UNCHANGED <<buttonVars, shown, fnVars>>
    /\ UNCHANGED <<widgetVars, helperVars>>

Next ==
    \/ Render
    \/ Navigate
    \/ Popstate
    \/ Programmatic
    \/ ExternalLink
    \/ Increase
    \/ Decrease
    \/ ApiResolve
    \/ ApiReject

Spec == Init /\ [][Next]_vars

\* ------------------------------------------------------------------ matcher specification
\* The router on its own: patterns are registered one by one, each with its
\* registration index as handler, and paths are matched against the table.

\* The page before anything has happened on it, with an empty route table.
PageAtRest ==
    /\ variant = "index"
    /\ boot = "running"
    /\ router = NewRouter
    /\ route = <<Slash>>
    /\ count = 0
    /\ scroll = <<0, 0>>
    /\ view = "none"
    /\ dirty = TRUE
    /\ renderErr = FALSE
    /\ memo = NoMemo
    /\ lastMatch = NoCall
    /\ incCalls = 0
    /\ decCalls = 0
    /\ lastOp = "none"
    /\ lastBefore = 0
    /\ lastNav = NoNav
    /\ scrollCalls = <<>>
    /\ published = <<>>
    /\ notified = {}
    /\ NoClicks

MatcherInit ==
    /\ PageAtRest
    /\ NoTraffic
    /\ NoWidgets
    /\ NoHelpers

\* Registration precedes the first lookup: the table is built once, and each
\* pattern is registered at most once.
AddRoute(pattern) ==
    /\ ~lastMatch.called
    /\ \A i \in 1..Len(router) : router[i].pattern # pattern
    /\ Len(router) < MaxRoutes
    /\ router' = AddRouteTo(router, pattern, Len(router) + 1)
    /\ UNCHANGED <<variant, boot, route, count, scroll, view, dirty, renderErr,
                   memo, lastMatch, notified>>
    /\ UNCHANGED history
    /\ UNCHANGED navHistory
    /\ UNCHANGED <<buttonVars, shown, fnVars>>
    /\ UNCHANGED <<widgetVars, helperVars>>

MatchCall(path) ==
    /\ lastMatch' = [called |-> TRUE, arg |-> path, res |-> Match(router, path)]
    /\ UNCHANGED <<variant, boot, router, route, count, scroll, view, dirty,
                   renderErr, memo, notified>>
    /\ UNCHANGED history
    /\ UNCHANGED navHistory
    /\ UNCHANGED <<buttonVars, shown, fnVars>>
    /\ UNCHANGED <<widgetVars, helperVars>>

Register == \E pattern \in PatternSet : AddRoute(pattern)
Lookup == \E path \in MatchPaths : MatchCall(path)

MatcherNext ==
    \/ Register
    \/ Lookup

MatcherSpec == MatcherInit /\ [][MatcherNext]_vars

\* ------------------------------------------------------------------ home specification
\* The page at '/', with Example handing the state to HomeRoute: the plus and
\* the minus Button are clicked.  A click runs Button's click callback up to
\* its await; the render that the writes made due runs next, the rest of the
\* callback after it.

HomeInit ==
    /\ Init
    /\ variant # "part_001"
    /\ route = <<Slash>>

\* A Button that stays spinning once its handler has returned.
ClickDoneSpinning ==
    /\ awaiting # "none"
    /\ ~dirty
    /\ awaiting' = "none"
    /\ dirty' = TRUE
    /\ notified' = {}
    /\ UNCHANGED <<variant, boot, router, route, count, scroll, view, renderErr,
                   memo, lastMatch, spinning, shown>>
    /\ UNCHANGED history
    /\ UNCHANGED navHistory
    /\ UNCHANGED fnVars
    /\ UNCHANGED <<widgetVars, helperVars>>

\* Button's click callback past its await: isSpinning.value = false.
ClickDone ==
    /\ awaiting # "none"
    /\ ~dirty
    /\ spinning' = [spinning EXCEPT ![awaiting] = FALSE]
    /\ awaiting' = "none"
    /\ dirty' = TRUE
    /\ notified' = {"isSpinning"}
    /\ UNCHANGED <<variant, boot, router, route, count, scroll, view, renderErr,
                   memo, lastMatch, shown>>
    /\ UNCHANGED history
    /\ UNCHANGED navHistory
    /\ UNCHANGED fnVars
    /\ UNCHANGED <<widgetVars, helperVars>>

\* A click reaches a Button that the page shows enabled.
Clickable(b) ==
    /\ ~dirty
    /\ awaiting = "none"
    /\ shown.set
    /\ ~shown.disabled[b]
    /\ incCalls + decCalls < MaxOps

\* Click on plus: isSpinning.value = true, then HomeRoute's plus, which calls
\* State.Increase, then the await.
ClickPlus ==
    /\ Clickable("plus")
    /\ spinning' = [spinning EXCEPT !["plus"] = TRUE]
    /\ count' = count + 1
    /\ incCalls' = incCalls + 1
    /\ lastOp' = "Increase"
    /\ lastBefore' = count
    /\ awaiting' = "plus"
    /\ dirty' = TRUE
    /\ notified' = {"isSpinning", "count"}
    /\ UNCHANGED <<variant, boot, router, route, scroll, view, renderErr, memo,
                   lastMatch, decCalls, shown>>
    /\ UNCHANGED navHistory
    /\ UNCHANGED fnVars
    /\ UNCHANGED <<widgetVars, helperVars>>

\* Click on minus: the same with HomeRoute's minus and State.Decrease.
ClickMinus ==
    /\ Clickable("minus")
    /\ spinning' = [spinning EXCEPT !["minus"] = TRUE]
    /\ count' = count - 1
    /\ decCalls' = decCalls + 1
    /\ lastOp' = "Decrease"
    /\ lastBefore' = count
    /\ awaiting' = "minus"
    /\ dirty' = TRUE
    /\ notified' = {"isSpinning", "count"}
    /\ UNCHANGED <<variant, boot, router, route, scroll, view, renderErr, memo,
                   lastMatch, incCalls, shown>>
    /\ UNCHANGED navHistory
    /\ UNCHANGED fnVars
    /\ UNCHANGED <<widgetVars, helperVars>>

HomeNext ==
    \/ Render
    \/ ClickPlus
    \/ ClickMinus
    \/ ClickDone

HomeSpec == HomeInit /\ [][HomeNext]_vars

\* ------------------------------------------------------------------ serverless functions
\* The two Netlify functions, each called with one request at a time.  They
\* run on the server: the variables of the page stay as they start.

Methods == {"GET", "POST", "PUT", "DELETE", "PATCH", "HEAD", "OPTIONS"}

\* The value of a path parameter the matched path does not bind.
Undefined == "undefined"
ParamValues == {Undefined, "a", "b"}

\* context.params of the example function; the hello function has none.
Contexts == [param : ParamValues, splat : ParamValues]
NoParams == [param |-> Undefined, splat |-> Undefined]

Requests ==
    [set : {TRUE}, fn : {"example"}, method : Methods, params : Contexts]
        \cup [set : {TRUE}, fn : {"hello"}, method : Methods, params : {NoParams}]

NoBody == <<>>
CacheHeader ==
    <<"Netlify-CDN-Cache-Control",
      "public, durable, max-age=60, stale-while-revalidate=120">>

\* JSON.stringify of an object given as its <<key, value>> pairs in order: a
\* property whose value is undefined is left out of the text.
RECURSIVE JsonStringify(_)
JsonStringify(pairs) ==
    IF pairs = <<>> THEN <<>>
    ELSE (IF Head(pairs)[2] = Undefined THEN <<>> ELSE <<Head(pairs)>>)
             \o JsonStringify(Tail(pairs))

\* The property of the object a JSON text parses to.
JsonParse(text, key) ==
    IF \E i \in 1..Len(text) : text[i][1] = key
    THEN text[CHOOSE i \in 1..Len(text) : text[i][1] = key][2]
    ELSE Undefined

JsonKeys(text) == { text[i][1] : i \in 1..Len(text) }

\* An example function that answers with the two parameters exchanged.
exampleSwapped(req) ==
    LET param == req.params.param
        splat == req.params.splat
    IN  IF req.method # "GET"
        THEN [set |-> TRUE, status |-> 405, body |-> NoBody, headers |-> {}]
        ELSE [set |-> TRUE, status |-> 200,
              body |-> JsonStringify(<< <<"param", splat>>, <<"splat", param>> >>),
              headers |-> {CacheHeader}]

\* The default export of netlify/functions/example/example.ts.
example(req) ==
    LET param == req.params.param
        splat == req.params.splat
    IN  IF req.method # "GET"
        THEN [set |-> TRUE, status |-> 405, body |-> NoBody, headers |-> {}]
        ELSE [set |-> TRUE, status |-> 200,
              body |-> JsonStringify(<< <<"param", param>>, <<"splat", splat>> >>),
              headers |-> {CacheHeader}]

\* A hello function that answers every method.
handlerAnyMethod(ev) ==
    [set |-> TRUE, status |-> 200,
     body |-> JsonStringify(<< <<"hello", "hello">> >>), headers |-> {}]

\* handler of the hello function.
handler(ev) ==
    IF ev.method # "GET"
    THEN [set |-> TRUE, status |-> 405, body |-> NoBody, headers |-> {}]
    ELSE [set |-> TRUE, status |-> 200,
          body |-> JsonStringify(<< <<"hello", "hello">> >>), headers |-> {}]

pageVars == <<variant, boot, router, route, count, scroll, view, dirty, renderErr,
              memo, lastMatch, notified, shown>>

FnInit == MatcherInit

\* A request arrives at one of the functions.
Call(req) ==
    /\ request.set => response.set
    /\ request' = req
    /\ response' = NoResponse
    /\ UNCHANGED <<pageVars, history, navHistory, buttonVars>>
    /\ UNCHANGED <<widgetVars, helperVars>>

Arrive == \E req \in Requests : Call(req)

\* The example function answers the request.
RunExample ==
    /\ request.set
    /\ request.fn = "example"
    /\ ~response.set
    /\ response' = example(request)
    /\ UNCHANGED <<request, pageVars, history, navHistory, buttonVars>>
    /\ UNCHANGED <<widgetVars, helperVars>>

\* The hello function answers the request.
RunHello ==
    /\ request.set
    /\ request.fn = "hello"
    /\ ~response.set
    /\ response' = handler(request)
    /\ UNCHANGED <<request, pageVars, history, navHistory, buttonVars>>
    /\ UNCHANGED <<widgetVars, helperVars>>

FnNext ==
    \/ Arrive
    \/ RunExample
    \/ RunHello

FnSpec == FnInit /\ [][FnNext]_vars

\* ------------------------------------------------------------------ ContactRoute
\* The page of src/index.ts or part_002 on '/', '/contact' and '/x', with
\* ContactRoute's form.  A submission is pending from the submit event to
\* the end of its sleep(3000); contact.sleeping counts those of the mounted
\* instance, contact.stale those started by an instance unmounted since.

ContactPaths == { <<Slash>>, <<Slash, "contact">>, <<Slash, "x">> }

ContactInit ==
    /\ Init
    /\ variant # "part_001"
    /\ route \in ContactPaths

\* A link to '/', to '/contact' or to a path without a route is followed.
ContactNavigate ==
    \E path \in ContactPaths :
        /\ OnRoute(path, FALSE, <<0, 0>>)
        /\ lastNav' = NavEvent("link", path, <<0, 0>>)

ContactFrame ==
    /\ UNCHANGED <<variant, boot, router, route, count, scroll, view, renderErr,
                   memo, lastMatch, shown>>
    /\ UNCHANGED history
    /\ UNCHANGED navHistory
    /\ UNCHANGED <<buttonVars, fnVars, button, helperVars>>

\* The form is submitted, which its enabled input or Button allows:
\* submit runs up to its await, isResolving.value = true.
ContactSubmit ==
    /\ view = "ContactRoute"
    /\ ~dirty
    /\ ~contact.disabled
    /\ contact.sleeping + contact.stale < MaxSleeps
    /\ contact' = [contact EXCEPT !.isResolving = TRUE, !.sleeping = @ + 1]
    /\ dirty' = ~contact.isResolving
    /\ notified' = IF contact.isResolving THEN {} ELSE {"isResolving"}
    /\ ContactFrame

\* The oldest running sleep(3000) ends and its submit goes on:
\* isResolving.value = false, on the signal of the instance that started it.
\* The sleeps of unmounted instances are older than those of the mounted one.
ContactWaitDone ==
    /\ ~dirty
    /\ contact.sleeping + contact.stale > 0
    /\ IF contact.stale > 0
       THEN /\ contact' = [contact EXCEPT !.stale = @ - 1]
            /\ dirty' = FALSE
            /\ notified' = {}
       ELSE /\ contact' = [contact EXCEPT !.sleeping = @ - 1, !.isResolving = FALSE]
            /\ dirty' = contact.isResolving
            /\ notified' = IF contact.isResolving THEN {"isResolving"} ELSE {}
    /\ ContactFrame

ContactNext ==
    \/ Render
    \/ ContactNavigate
    \/ ContactSubmit
    \/ ContactWaitDone

ContactSpec == ContactInit /\ [][ContactNext]_vars

\* ------------------------------------------------------------------ Button
\* One Button of routes/index.ts on its own, with its own isSpinning signal
\* and any handler: the handler called by a click returns at once, throws,
\* or returns a promise that is resolved or rejected by a later task.
\* A write to isSpinning makes a render due; the render runs before the
\* rest of the click callback and before the next task.

\* What a call of props.onClick does.
Outcomes == {"returns", "throws", "promise"}

\* The Button after its first render, nothing clicked.
MountedButtons ==
    { [set |-> TRUE, onClick |-> h, disabledProp |-> d, isSpinning |-> FALSE,
       inFlight |-> 0, resume |-> FALSE, due |-> FALSE,
       dom |-> [disabled |-> d, spinning |-> FALSE],
       clicks |-> 0, started |-> 0, saw |-> FALSE, lastSettle |-> "none"] :
      h \in BOOLEAN, d \in BOOLEAN }

ButtonInit ==
    /\ PageAtRest
    /\ NoTraffic
    /\ NoHelpers
    /\ contact = NoContact
    /\ button \in MountedButtons

ButtonFrame ==
    UNCHANGED <<contact, helperVars, pageVars, history, navHistory, buttonVars, fnVars>>

\* The browser dispatches a click to a button that is not disabled, between
\* tasks: no render is due and no callback is waiting to go on.
ButtonIdle ==
    /\ button.set
    /\ ~button.due
    /\ ~button.resume

\* The click callback up to its await, with the handler's call inside.
Clicked(b, outcome) ==
    IF ~b.onClick THEN [b EXCEPT !.clicks = @ + 1]
    ELSE LET spun == [b EXCEPT !.clicks = @ + 1,
                               !.isSpinning = TRUE,
                               !.due = b.due \/ ~b.isSpinning,
                               !.started = @ + 1,
                               !.saw = TRUE]
         IN  CASE outcome = "returns" -> [spun EXCEPT !.resume = TRUE]
               [] outcome = "throws"  -> [spun EXCEPT !.lastSettle = "threw"]
               [] outcome = "promise" -> [spun EXCEPT !.inFlight = @ + 1]

\* A callback that calls the handler before it sets isSpinning.
ButtonClickLate(outcome) ==
    /\ ButtonIdle
    /\ ~button.dom.disabled
    /\ button.clicks < MaxClicks
    /\ button' = [Clicked(button, outcome) EXCEPT !.saw = button.isSpinning]
    /\ ButtonFrame

\* A click that reaches the callback although the button is disabled.
ButtonClickThrough(outcome) ==
    /\ ButtonIdle
    /\ button.clicks < MaxClicks
    /\ button' = Clicked(button, outcome)
    /\ ButtonFrame

\* click: if (props.onClick) { isSpinning.value = true; await props.onClick(ev)
ButtonClick(outcome) ==
    /\ ButtonIdle
    /\ ~button.dom.disabled
    /\ button.clicks < MaxClicks
    /\ button' = Clicked(button, outcome)
    /\ ButtonFrame

\* The render of the Button: disabled and the 'spinning' class follow
\* isSpinning.value.
ButtonRender ==
    /\ button.set
    /\ button.due
    /\ button' = [button EXCEPT !.due = FALSE,
                                !.dom = [disabled |-> button.isSpinning \/ button.disabledProp,
                                         spinning |-> button.isSpinning]]
    /\ ButtonFrame

\* The parent renders the Button again with another disabled prop.
ButtonSetDisabled(d) ==
    /\ ButtonIdle
    /\ d # button.disabledProp
    /\ button' = [button EXCEPT !.disabledProp = d,
                                !.dom = [disabled |-> button.isSpinning \/ d,
                                         spinning |-> button.isSpinning]]
    /\ ButtonFrame

\* The callback past its await of a handler that returned no promise:
\* isSpinning.value = false.
ButtonResume ==
    /\ button.set
    /\ button.resume
    /\ ~button.due
    /\ button' = [button EXCEPT !.resume = FALSE,
                                !.due = button.isSpinning,
                                !.isSpinning = FALSE,
                                !.lastSettle = "returned"]
    /\ ButtonFrame

\* The handler's promise is resolved: the callback goes on past its await,
\* isSpinning.value = false.
ButtonResolve ==
    /\ ButtonIdle
    /\ button.inFlight > 0
    /\ button' = [button EXCEPT !.inFlight = @ - 1,
                                !.due = button.isSpinning,
                                !.isSpinning = FALSE,
                                !.lastSettle = "resolved"]
    /\ ButtonFrame

\* The handler's promise is rejected: the await throws and the callback
\* ends there.
ButtonReject ==
    /\ ButtonIdle
    /\ button.inFlight > 0
    /\ button' = [button EXCEPT !.inFlight = @ - 1,
                                !.lastSettle = "rejected"]
    /\ ButtonFrame

ButtonNext ==
    \/ \E outcome \in Outcomes : ButtonClick(outcome)
    \/ ButtonRender
    \/ \E d \in BOOLEAN : ButtonSetDisabled(d)
    \/ ButtonResume
    \/ ButtonResolve
    \/ ButtonReject

ButtonSpec == ButtonInit /\ [][ButtonNext]_vars

\* ------------------------------------------------------------------ test helpers
\* The helpers of test/a11y/helpers.ts that compute on what a scan or the
\* page returned: each is called once with one input.

Impacts == {"critical", "serious", "moderate", "minor"}

\* The impact of a violation that has none (null or undefined).
NoImpact == "null"

Violations == [id : {"a", "b"}, impact : Impacts \cup {NoImpact}]
ViolationLists == UNION { [1..n -> Violations] : n \in 0..MaxViolations }

\* The levels of the headings of a page, in document order.
HeadingLists == UNION { [1..n -> 1..MaxLevel] : n \in 0..MaxHeadings }

Subjects ==
    [set : {TRUE}, fn : {"expectNoA11yViolations", "groupViolationsByImpact"},
     violations : ViolationLists]
        \cup [set : {TRUE}, fn : {"checkHeadingStructure"}, headings : HeadingLists]

Returned(value) == [set |-> TRUE, threw |-> FALSE, value |-> value]
Threw(message) == [set |-> TRUE, threw |-> TRUE, message |-> message]

\* expect(value, message).toHaveLength(n)
ToHaveLength(value, n, message) ==
    IF Len(value) = n THEN Returned("undefined") ELSE Threw(message)

\* expect(value, message).toBe(n)
ToBe(value, n, message) ==
    IF value = n THEN Returned("undefined") ELSE Threw(message)

\* A helper that lets a single violation pass.
expectNoA11yViolationsLenient(violations) ==
    IF Len(violations) > 1
    THEN ToHaveLength(violations, 0,
                      [text |-> "Expected no accessibility violations but found",
                       found |-> Len(violations)])
    ELSE Returned("undefined")

\* expectNoA11yViolations, given the violations of the scan.
expectNoA11yViolations(violations) ==
    IF Len(violations) > 0
    THEN ToHaveLength(violations, 0,
                      [text |-> "Expected no accessibility violations but found",
                       found |-> Len(violations)])
    ELSE Returned("undefined")

\* The first index from i on at which a heading is more than one level
\* deeper than the heading before it; 0 when there is none.
RECURSIVE FirstSkip(_, _)
FirstSkip(headings, i) ==
    IF i > Len(headings) THEN 0
    ELSE IF headings[i] - headings[i - 1] > 1 THEN i
    ELSE FirstSkip(headings, i + 1)

\* checkHeadingStructure, given the heading levels page.evaluate returned:
\* the h1 count is tested first, then each heading from the second on
\* against the one before it.
checkHeadingStructure(headings) ==
    LET h1Count == Cardinality({ i \in 1..Len(headings) : headings[i] = 1 })
        counted == ToBe(h1Count, 1, [text |-> "Page should have exactly one h1 element"])
        skip == FirstSkip(headings, 2)
    IN  IF counted.threw THEN counted
        ELSE IF skip # 0
        THEN Threw([text |-> "Heading level skip detected",
                    previous |-> headings[skip - 1], current |-> headings[skip]])
        ELSE Returned("undefined")

\* A grouping that puts each violation in front of its group.
RECURSIVE groupReversed(_, _)
groupReversed(violations, grouped) ==
    IF violations = <<>> THEN grouped
    ELSE LET violation == Head(violations)
         IN  groupReversed(Tail(violations),
                 IF violation.impact # NoImpact
                 THEN [grouped EXCEPT ![violation.impact] = <<violation>> \o @]
                 ELSE grouped)

\* violations.forEach: a violation with an impact is pushed to its group.
RECURSIVE forEachPush(_, _)
forEachPush(violations, grouped) ==
    IF violations = <<>> THEN grouped
    ELSE LET violation == Head(violations)
         IN  forEachPush(Tail(violations),
                 IF violation.impact # NoImpact
                 THEN [grouped EXCEPT ![violation.impact] = Append(@, violation)]
                 ELSE grouped)

\* groupViolationsByImpact: the four groups start empty.
groupViolationsByImpact(violations) ==
    Returned(forEachPush(violations, [g \in Impacts |-> <<>>]))

HelperInit ==
    /\ PageAtRest
    /\ NoTraffic
    /\ NoWidgets
    /\ subject \in Subjects
    /\ verdict = NoVerdict

CallExpect ==
    /\ ~verdict.set
    /\ subject.fn = "expectNoA11yViolations"
    /\ verdict' = expectNoA11yViolations(subject.violations)
    /\ UNCHANGED <<subject, pageVars, history, navHistory, buttonVars, fnVars, widgetVars>>

CallHeadings ==
    /\ ~verdict.set
    /\ subject.fn = "checkHeadingStructure"
    /\ verdict' = checkHeadingStructure(subject.headings)
    /\ UNCHANGED <<subject, pageVars, history, navHistory, buttonVars, fnVars, widgetVars>>

CallGroup ==
    /\ ~verdict.set
    /\ subject.fn = "groupViolationsByImpact"
    /\ verdict' = groupViolationsByImpact(subject.violations)
    /\ UNCHANGED <<subject, pageVars, history, navHistory, buttonVars, fnVars, widgetVars>>

HelperNext ==
    \/ CallExpect
    \/ CallHeadings
    \/ CallGroup

HelperSpec == HelperInit /\ [][HelperNext]_vars

\* ------------------------------------------------------------------ properties

SegCount(path) == Len(Split(path))
Matching(path) == { i \in 1..Len(router) : PatternMatches(router[i].pattern, path) }
First(hits) == CHOOSE k \in hits : \A j \in hits : k <= j

\* A literal-only pattern at i and a wildcard pattern at j, i registered
\* before j, that both match the path.
LiteralBeforeWild(i, j, path) ==
    /\ i < j
    /\ IsLiteralOnly(router[i].pattern)
    /\ HasWild(router[j].pattern)
    /\ i \in Matching(path)
    /\ j \in Matching(path)

\* C1 as stated: whenever a literal-only pattern P1 and a later-registered
\* wildcard pattern P2 both match the path, match returns P1's handler.
C1_LiteralAlwaysWins ==
    lastMatch.called =>
        \A i, j \in 1..Len(router) :
            LiteralBeforeWild(i, j, lastMatch.arg) =>
                lastMatch.res.found /\ lastMatch.res.action = router[i].action

\* C1 amended: match returns the first registered pattern that matches and the
\* no-match result when none does; with a literal-only P1 registered before a
\* wildcard P2 that both match, the result is never P2's handler, and it is
\* P1's handler when no pattern registered before P1 matches the path.
C1_FirstMatchWins ==
    lastMatch.called =>
        LET path == lastMatch.arg
            res == lastMatch.res
        IN  /\ Matching(path) = {} => res = NoMatch
            /\ Matching(path) # {} =>
                  /\ res.found
                  /\ res.action = router[First(Matching(path))].action
                  /\ res.pattern = router[First(Matching(path))].pattern
            /\ \A i, j \in 1..Len(router) :
                  LiteralBeforeWild(i, j, path) =>
                      /\ res.found
                      /\ res.action # router[j].action
                      /\ First(Matching(path)) = i => res.action = router[i].action

\* C1 witness: '/contact' then '/*' are registered and '/contact' was matched:
\* the literal pattern's handler came back.
C1_Witness ==
    /\ lastMatch.called
    /\ Len(router) >= 2
    /\ LiteralBeforeWild(1, 2, lastMatch.arg)
    /\ lastMatch.res.found
    /\ lastMatch.res.action = 1

\* C2: with the application's table, '/contact' resolves to the Contact
\* handler, '/' to the Home handler, and every other path to no match.
C2_AppTable ==
    lastMatch.called =>
        /\ lastMatch.arg = <<Slash, "contact">> =>
              /\ lastMatch.res.found
              /\ lastMatch.res.action = "ContactFactory"
              /\ Invoke(lastMatch.res.action) = "ContactRoute"
        /\ lastMatch.arg = <<Slash>> =>
              /\ lastMatch.res.found
              /\ lastMatch.res.action = "HomeFactory"
              /\ Invoke(lastMatch.res.action) = "HomeRoute"
        /\ lastMatch.arg \notin { <<Slash>>, <<Slash, "contact">> } =>
              lastMatch.res = NoMatch

\* C2 witness: '/contact' was matched and the Contact view is shown.
C2_Witness ==
    /\ lastMatch.called
    /\ lastMatch.arg = <<Slash, "contact">>
    /\ lastMatch.res.action = "ContactFactory"
    /\ view = "ContactRoute"

\* C3: once Example has rendered a well-formed path that no pattern matches,
\* no error was raised and the 404 view is shown.
C3_UnmatchedRenders404 ==
    ( /\ boot = "running"
      /\ ~dirty
      /\ lastMatch.called
      /\ lastMatch.arg \in PathNames
      /\ lastMatch.res = NoMatch ) =>
        (~renderErr /\ view = "404")

\* C4: a registered pattern without a wildcard does not match a path whose
\* segment count differs from its own, and match never returns it for one.
C4_SegmentCount ==
    lastMatch.called =>
        \A i \in 1..Len(router) :
            ( /\ ~HasWild(router[i].pattern)
              /\ SegCount(router[i].pattern) # SegCount(lastMatch.arg) ) =>
                /\ i \notin Matching(lastMatch.arg)
                /\ lastMatch.res.found => lastMatch.res.action # i

\* C4 witness: the first pattern has no wildcard and another segment count
\* than the matched path, which a later pattern matched.
C4_Witness ==
    /\ lastMatch.called
    /\ Len(router) >= 2
    /\ ~HasWild(router[1].pattern)
    /\ SegCount(router[1].pattern) # SegCount(lastMatch.arg)
    /\ lastMatch.res.found
    /\ lastMatch.res.action = 2

\* C5: every path handed to router.match begins with '/' and carries no query
\* string.
C5_MatchArgStripped ==
    lastMatch.called =>
        /\ Head(lastMatch.arg) = Slash
        /\ \A i \in 1..Len(lastMatch.arg) : lastMatch.arg[i] # QueryTok

\* The table as registered at startup.
StartupTable ==
    << [pattern |-> <<Slash>>, action |-> "HomeFactory"],
       [pattern |-> <<Slash, "contact">>, action |-> "ContactFactory"] >>

\* C6: the route table always is the table registered at startup, no step
\* changes it, a render (the step that calls match) changes neither the route
\* nor the counter, and a memoized match equals a fresh match of its path.
C6_TableImmutable ==
    /\ [](router = StartupTable)
    /\ [][router' = router]_vars
    /\ [][(dirty /\ ~dirty') => (route' = route /\ count' = count)]_vars
    /\ [](memo # NoMemo => memo.val = Match(router, memo.dep))

\* C6 witness: navigation (a history pop), counter calls and renders have all
\* happened and the table is the startup table.
C6_Witness ==
    /\ router = StartupTable
    /\ incCalls > 0
    /\ decCalls > 0
    /\ scroll = <<120, 0>>
    /\ memo # NoMemo
    /\ memo.dep = <<Slash, "contact">>
    /\ ~dirty

\* No render is pending and the bound on counter calls is not reached.
Idle == ~dirty /\ incCalls + decCalls < MaxOps

\* C7: every State.Increase call leaves the counter at exactly its value
\* before plus one, and the call is possible at every counter value.
C7_Increase ==
    /\ [][incCalls' # incCalls => count' = count + 1]_vars
    /\ [](Idle => ENABLED Increase)

\* C7 witness: two calls of Increase took the counter from 0 to 2.
C7_Witness ==
    /\ incCalls = 2
    /\ decCalls = 0
    /\ count = 2
    /\ lastOp = "Increase"
    /\ lastBefore = 1

\* C8: every State.Decrease call leaves the counter at exactly its value
\* before minus one, at 0 and below as well, and the call is always possible.
C8_Decrease ==
    /\ [][decCalls' # decCalls => count' = count - 1]_vars
    /\ [](Idle => ENABLED Decrease)

\* C8 witness: two calls of Decrease took the counter from 0 to -2.
C8_Witness ==
    /\ decCalls = 2
    /\ incCalls = 0
    /\ count = -2
    /\ lastOp = "Decrease"
    /\ lastBefore = -1

\* C9: the counter is the number of Increase calls minus the number of
\* Decrease calls (0 before any call).
C9_CountIsDifference == count = incCalls - decCalls

\* C9 witness: three increments then one decrement give 2.
C9_Witness ==
    /\ incCalls = 3
    /\ decCalls = 1
    /\ lastOp = "Decrease"
    /\ lastBefore = 3
    /\ count = 2

\* C10: a Decrease call that follows an Increase call restores the counter
\* value held before the Increase.
C10_RoundTrip ==
    [][(lastOp = "Increase" /\ decCalls' # decCalls) => count' = lastBefore]_vars

\* C10 witness: Increase from 0, then Decrease, is back at 0.
C10_Witness ==
    /\ incCalls = 1
    /\ decCalls = 1
    /\ lastOp = "Decrease"
    /\ lastBefore = 1
    /\ count = 0

\* ------------------------------------------------------------------ navigation properties

\* The last event was handled by the callback.
InApp(nav) == nav.set /\ nav.kind # "external"

\* This step handles an event other than a repeat of the last one.
NewEvent == lastNav' # lastNav

\* This step is a counter call.
CounterCall == incCalls' # incCalls \/ decCalls' # decCalls

\* The base path taken off the start of a path, and only there.
StripPrefixAtStart(path) ==
    IF Len(path) >= Len(BasePrefix) /\ SubSeq(path, 1, Len(BasePrefix)) = BasePrefix
    THEN <<Slash>> \o SubSeq(path, Len(BasePrefix) + 1, Len(path))
    ELSE path

\* C11: a counter call leaves the route as it is and announces no change of
\* the route; a navigation event or setRoute call leaves the counter as it is
\* and announces no change of the counter.
C11_Independent ==
    [][/\ CounterCall => (route' = route /\ "route" \notin notified')
       /\ NewEvent => (count' = count /\ "count" \notin notified')]_vars

\* C11 witness: setRoute('/contact') was followed by Increase; the counter's
\* change was announced and the route still is the one set.
C11_Witness ==
    /\ lastNav = NavEvent("setRoute", <<Slash, "contact">>, <<0, 0>>)
    /\ route = <<Slash, "contact">>
    /\ lastOp = "Increase"
    /\ count = 1
    /\ notified = {"count"}


\* This step is a setRoute call with the path of the call before it, and no
\* other event between the two calls.
SetRouteAgain ==
    /\ lastNav.set
    /\ lastNav.kind = "setRoute"
    /\ lastNav' = lastNav
    /\ ~dirty
    /\ boot' = boot
    /\ history' = history
    /\ published # <<>>

\* C12 as stated: setRoute(p) leaves the route signal holding p itself.
C12_SetRouteVerbatim ==
    [][(NewEvent /\ lastNav'.kind = "setRoute") => route' = lastNav'.path]_vars

\* C12: setRoute(p) leaves the route signal holding p with its first
\* '/template-ts-preact-htm/' replaced by '/', announcing at most one change;
\* a second setRoute(p) right after it leaves the same value, announces
\* nothing and schedules no render.
C12_SetRouteNormalized ==
    [][/\ (NewEvent /\ lastNav'.kind = "setRoute") =>
            /\ route' = ReplaceFirst(lastNav'.path, BasePrefix, <<Slash>>)
            /\ notified' \subseteq {"route"}
       /\ SetRouteAgain =>
            /\ route' = route
            /\ published' = <<route>>
            /\ notified' = {}
            /\ ~dirty']_vars

\* C12 witness: setRoute('/template-ts-preact-htm/') has published '/', and
\* the change was rendered.
C12_Witness ==
    /\ lastNav = NavEvent("setRoute", BasePrefix, <<0, 0>>)
    /\ route = <<Slash>>
    /\ published = <<route>>
    /\ view = "HomeRoute"
    /\ ~dirty
    /\ notified = {}

\* C13: each navigation event gives the route signal one value, the event's
\* path with the base path taken off its start, and no other step changes
\* the route signal.
C13_ValuesFollowEvents ==
    [][/\ (NewEvent /\ InApp(lastNav')) =>
            /\ published' = <<StripPrefixAtStart(lastNav'.path)>>
            /\ route' = published'[1]
       /\ (lastNav' = lastNav \/ ~InApp(lastNav')) => route' = route]_vars

\* C14: every navigation event is answered by exactly one scrollTo call: to
\* the offset recorded for the entry when the history was popped, to (0, 0)
\* otherwise.
C14_OneScroll ==
    InApp(lastNav) =>
        /\ scrollCalls = << IF lastNav.kind = "pop" THEN lastNav.offset ELSE <<0, 0>> >>
        /\ scroll = scrollCalls[1]

\* C14 witness: a history pop to an entry recorded at (120, 0) has scrolled
\* there.
C14_Witness ==
    /\ InApp(lastNav)
    /\ lastNav.kind = "pop"
    /\ lastNav.offset = <<120, 0>>
    /\ scrollCalls = << <<120, 0>> >>
    /\ scroll = <<120, 0>>

\* C15: the path published for a navigation event is the event's path with
\* the base path taken off its start; a path that does not start with the
\* base path is published as it is.
C15_PrefixStrippedAtStart ==
    InApp(lastNav) => route = StripPrefixAtStart(lastNav.path)

HasH2(v) == v \in {"HomeRoute", "ContactRoute"}

\* C19: once rendered, each route the accessibility suite visits shows a
\* route view with an h2, not the 404 view and not an error.
C19_SuiteRoutesRender ==
    (boot = "running" /\ ~dirty /\ route \in SuitePaths \cup {<<Slash>>}) =>
        (HasH2(view) /\ ~renderErr)

\* ------------------------------------------------------------------ home properties

\* No render is due and no click handler is suspended.
Settled == ~dirty /\ awaiting = "none"

\* This step is a click on button b.
ClickOn(b) == awaiting = "none" /\ awaiting' = b

\* C20: on the home route a click on plus adds exactly 1 to the counter and
\* a click on minus takes exactly 1 off; whenever no render is due the count
\* on the page is the counter signal's value, so once a click is handled the
\* page shows the count before the click plus or minus 1; and then both
\* buttons are enabled again.  The steps that get there are always possible.
C20_ClickCounts ==
    /\ [][/\ ClickOn("plus") => count' = count + 1
          /\ ClickOn("minus") => count' = count - 1]_vars
    /\ []((~dirty /\ shown.set) => shown.count = count)
    /\ []((Settled /\ shown.set /\ lastOp = "Increase") =>
              shown.count = lastBefore + 1)
    /\ []((Settled /\ shown.set /\ lastOp = "Decrease") =>
              shown.count = lastBefore - 1)
    /\ []((Settled /\ shown.set) =>
              \A b \in Buttons : ~shown.disabled[b] /\ ~spinning[b])
    /\ [](dirty => ENABLED Render)
    /\ []((awaiting # "none" /\ ~dirty) => ENABLED ClickDone)

\* C20 witness: plus was clicked twice and minus once; the clicks are
\* handled, the page shows 1 and both buttons are enabled.
C20_Witness ==
    /\ view = "HomeRoute"
    /\ Settled
    /\ incCalls = 2
    /\ decCalls = 1
    /\ lastOp = "Decrease"
    /\ lastBefore = 2
    /\ count = 1
    /\ shown = [set |-> TRUE, count |-> 1, disabled |-> [b \in Buttons |-> FALSE]]

\* ------------------------------------------------------------------ function properties

Answered == request.set /\ response.set

\* C17: whatever its parameters are, a request whose method is not GET is
\* answered by either function with status 405 and no body.
C17_NonGetRejected ==
    (Answered /\ request.method # "GET") =>
        /\ response.status = 405
        /\ response.status # 200
        /\ response.body = NoBody

\* C17 witness: a POST to the example function with param bound was
\* answered 405.
C17_Witness ==
    /\ Answered
    /\ request.fn = "example"
    /\ request.method = "POST"
    /\ request.params.param = "a"
    /\ response.status = 405
    /\ response.body = NoBody

\* C18: a GET to the example function is answered 200 with a JSON body that
\* parses to the request's param and splat and nothing else, under the
\* Netlify-CDN-Cache-Control header; a GET to the hello function is answered
\* 200 with the JSON body {hello: 'hello'}.
C18_GetAnswered ==
    (Answered /\ request.method = "GET") =>
        /\ response.status = 200
        /\ request.fn = "example" =>
              /\ JsonParse(response.body, "param") = request.params.param
              /\ JsonParse(response.body, "splat") = request.params.splat
              /\ JsonKeys(response.body) \subseteq {"param", "splat"}
              /\ CacheHeader \in response.headers
        /\ request.fn = "hello" =>
              /\ JsonParse(response.body, "hello") = "hello"
              /\ JsonKeys(response.body) = {"hello"}

\* C18 witness: a GET to the example function with param 'a' and splat 'b'
\* was answered with both in the body.
C18_Witness ==
    /\ Answered
    /\ request.fn = "example"
    /\ request.method = "GET"
    /\ request.params = [param |-> "a", splat |-> "b"]
    /\ response.status = 200
    /\ response.body = << <<"param", "a">>, <<"splat", "b">> >>

\* ------------------------------------------------------------------ helper properties

Called(fn) == verdict.set /\ subject.fn = fn

\* C21: expectNoA11yViolations throws exactly when the scan returned one
\* violation or more, and then its message carries the number of them.
C21_FailsIffViolations ==
    Called("expectNoA11yViolations") =>
        /\ verdict.threw <=> Len(subject.violations) >= 1
        /\ verdict.threw => verdict.message.found = Len(subject.violations)

\* C21 witness: a scan with two violations made the helper throw, the
\* message reporting 2.
C21_Witness ==
    /\ Called("expectNoA11yViolations")
    /\ Len(subject.violations) = 2
    /\ verdict.threw
    /\ verdict.message.found = 2

\* Exactly one h1, and no heading more than one level deeper than what
\* precedes it, the first heading being preceded by nothing (level 0).
ProperHeadings(headings) ==
    /\ Cardinality({ i \in 1..Len(headings) : headings[i] = 1 }) = 1
    /\ \A i \in 1..Len(headings) :
          headings[i] - (IF i = 1 THEN 0 ELSE headings[i - 1]) <= 1

\* C22: checkHeadingStructure returns exactly for the pages with one h1
\* whose headings skip no level, the first heading included, and throws
\* for every other page.
C22_AcceptsProperHeadings ==
    Called("checkHeadingStructure") =>
        (~verdict.threw <=> ProperHeadings(subject.headings))

\* The violations of a list that have impact g, in the order of the list.
WithImpact(violations, g) ==
    LET Is(v) == v.impact = g IN SelectSeq(violations, Is)

RECURSIVE SumLen(_, _)
SumLen(grouped, keys) ==
    IF keys = {} THEN 0
    ELSE LET g == CHOOSE k \in keys : TRUE
         IN  Len(grouped[g]) + SumLen(grouped, keys \ {g})

\* C30: groupViolationsByImpact returns the four groups; each holds the
\* input violations of its impact in input order; a violation without an
\* impact is in no group; the sizes add up to the number of violations
\* that have an impact.
C30_GroupedByImpact ==
    Called("groupViolationsByImpact") =>
        /\ ~verdict.threw
        /\ DOMAIN verdict.value = Impacts
        /\ \A g \in Impacts :
              verdict.value[g] = WithImpact(subject.violations, g)
        /\ \A g \in Impacts : \A i \in 1..Len(verdict.value[g]) :
              verdict.value[g][i].impact # NoImpact
        /\ SumLen(verdict.value, Impacts) =
              Cardinality({ i \in 1..Len(subject.violations) :
                              subject.violations[i].impact # NoImpact })

\* C30 witness: two serious violations around one without an impact came
\* back in their order in the serious group, the other groups empty.
C30_Witness ==
    /\ Called("groupViolationsByImpact")
    /\ subject.violations = << [id |-> "b", impact |-> "serious"],
                               [id |-> "a", impact |-> NoImpact],
                               [id |-> "a", impact |-> "serious"] >>
    /\ verdict.value["serious"] = << [id |-> "b", impact |-> "serious"],
                                     [id |-> "a", impact |-> "serious"] >>
    /\ verdict.value["critical"] = <<>>
    /\ verdict.value["moderate"] = <<>>
    /\ verdict.value["minor"] = <<>>

\* ------------------------------------------------------------------ Button properties

C24_SettledNotSpinning ==
    (button.set /\ button.inFlight = 0 /\ ~button.resume) => ~button.isSpinning

C26_ResolvingIffPending ==
    /\ view = "ContactRoute" =>
          /\ contact.isResolving <=> contact.sleeping + contact.stale > 0
          /\ (contact.isResolving /\ ~dirty) => contact.disabled
    /\ contact.sleeping + contact.stale = 0 => ~contact.isResolving

\* ------------------------------------------------------------------ page properties

\* The values state.route can hold before any navigation event.
InitialRoutes == { State(loc).route : loc \in Locations }

\* C27: the route signal holds the initial location until the first
\* navigation event, and from then on the path of the most recent one with
\* the base path taken off its start; a step that handles no navigation
\* event leaves it as it is.
C27_RouteIsLastEvent ==
    /\ [](~lastNav.set => route \in InitialRoutes)
    /\ [](InApp(lastNav) => route = StripPrefixAtStart(lastNav.path))
    /\ [][(lastNav' = lastNav \/ ~InApp(lastNav')) => route' = route]_vars

\* C28: in the index and part_002 variants, whenever no render is due the
\* view shown is the one the match of the current route selects: HomeRoute
\* for '/', ContactRoute for '/contact', the 404 view exactly when the
\* route has no match.
C28_ViewMatchesRoute ==
    (variant # "part_001" /\ ~dirty) =>
        LET match == Match(router, route)
        IN  /\ view = IF ~match.found THEN "404" ELSE Invoke(match.action)
            /\ view = "404" <=> ~match.found
            /\ route = <<Slash>> => view = "HomeRoute"
            /\ route = <<Slash, "contact">> => view = "ContactRoute"
            /\ ~renderErr

\* C28 witness: the history was popped to '/contact' and the page of
\* src/index.ts, which has rendered since, shows ContactRoute.
C28_Witness ==
    /\ variant = "index"
    /\ ~dirty
    /\ lastNav.set
    /\ lastNav.kind = "pop"
    /\ route = <<Slash, "contact">>
    /\ view = "ContactRoute"
    /\ memo.dep = route

\* C29: in the part_001 variant, once the request for /api/example has
\* settled, resolved or rejected, and no render is due, Example has been
\* rendered.
C29_RenderedAfterRequest ==
    (variant = "part_001" /\ boot # "fetching" /\ ~dirty) =>
        (view # "none" \/ renderErr)

====
